---------------------------- MODULE Spec2Model ----------------------------
(***************************************************************************)
(* A model of jsolar.py: the VBus frame reader (data_received), the        *)
(* config-driven decoder (ParseVbusPacket), the process-wide latest        *)
(* reading (the global parsed_datagram) and the two aiohttp handlers.      *)
(*                                                                         *)
(* Everything runs on one asyncio event loop, so a coroutine is atomic     *)
(* between two awaits.  main() runs the loop five times at most (lines     *)
(* 180, 184, 185, 215, 216); while it runs, the loop takes one turn after  *)
(* another, each running the callbacks that were ready when it began.  A   *)
(* step of the model is one callback of a turn; a step of the reader task  *)
(* is divided at each return of readuntil.  Requests and signals arrive    *)
(* between two turns; a turn ends with the callbacks of the signals and of *)
(* the bytes of the serial port that its select() found.                   *)
(*                                                                         *)
(* main() as shipped calls dummy_serial() (line 211) and leaves the call   *)
(* of setup_serial() commented out (line 215).  The variable deploy        *)
(* chooses between that process ("dummy") and the one in which line 215    *)
(* is the active line instead of line 211 ("serial"), which is the only    *)
(* way the reader loop of lines 56-66 ever runs.                           *)
(*                                                                         *)
(* Spec is that process without signals; SpecShutdown adds the delivery    *)
(* of termination signals and the shutdown tasks (lines 188-199);          *)
(* SpecShipped is main() as shipped under a wider choice of jsolar.ini;    *)
(* SpecStream feeds the reader from the bytes of a serial line.            *)
(***************************************************************************)
EXTENDS Integers, Sequences, FiniteSets, TLC

VARIABLES
    deploy,            \* "dummy": main() as shipped; "serial": line 215 active
    raw,               \* the [sensors] section of jsolar.ini as written
    config,            \* the global config (line 71), after parse_config
    parsed_datagram,   \* the global parsed_datagram: None or a Reading
    mainpc,            \* position of main() (lines 202-216)
    mainExc,           \* exception that left main(), "none" if none
    readerpc,          \* position of the task running data_received
    readerExc,         \* exception stored in the reader task, "none" if none
    resp,              \* the last HTTP response sent
    served,            \* number of HTTP requests handled
    last,              \* history: the candidate frame of the last iteration
    frames,            \* history: candidate frames taken from the byte source
    writes,            \* history: assignments to parsed_datagram by the reader
    good,              \* history: frames of length >= 6, version 0x10, decodable
    writer,            \* history: who assigned parsed_datagram last
    latest,            \* history: the Reading handed to the last assignment
    handlers,          \* the signals that have a handler (line 190)
    closure_s,         \* the variable s of handle_signals, read by the lambdas
    shutdowns,         \* the tasks running shutdown(sig), in order of creation
    pending,           \* signals that arrived and the loop has not noticed yet
    loop,              \* "idle", "running", or "stopped": the run call returns
    xtask,             \* the task of the current run_until_complete
    ready,             \* the loop's queue of callbacks that are ready to run
    batch,             \* the callbacks of the current turn still to run
    stopping,          \* stop() was called in the current turn
    rqueued,           \* a step of the reader task is queued or running
    line,              \* the bytes the serial line delivers, first to last
    pos,               \* how many bytes of line the reader has consumed
    cands              \* history: the candidate frames the reader has built

(* The variables of the signal handling, of the loop and of the byte       *)
(* stream.                                                                 *)
sigvars == <<handlers, closure_s, shutdowns, pending>>
loopvars == <<loop, xtask, ready, batch, stopping, rqueued>>
linevars == <<line, pos, cands>>

vars == <<deploy, raw, config, parsed_datagram, mainpc, mainExc, readerpc,
          readerExc, resp, served, last, frames, writes, good, writer, latest,
          handlers, closure_s, shutdowns, pending, loop, xtask, ready,
          batch, stopping, rqueued, line, pos, cands>>

-----------------------------------------------------------------------------
(* Bounds of the model *)

MaxChunk == 6      \* longest run of non-delimiter bytes one readuntil returns
MaxFrames == 2     \* candidate frames the reader takes in one run
MaxRequests == 1   \* HTTP requests handled in one run
MaxSignals == 2    \* termination signals delivered in one run
MaxStream == 7     \* bytes the serial line delivers before it ends

(* Program constants *)

Delimiter == 170       \* b'\xaa'
VersionMarker == 16    \* 0x10
VersionIndex == 5      \* buffer[5]
MinLen == 5            \* len(buffer) >= 5

-----------------------------------------------------------------------------
(* Python values.  None, str, int, bool and the decoder's decimal and time *)
(* results are kept apart, all in one record shape so that any two values  *)
(* can be compared.                                                        *)

PyNone == [kind |-> "None", num |-> 0, str |-> ""]
PyStr(s) == [kind |-> "str", num |-> 0, str |-> s]
PyInt(n) == [kind |-> "int", num |-> n, str |-> ""]
PyBool(b) == [kind |-> "bool", num |-> IF b THEN 1 ELSE 0, str |-> ""]
PyTenths(n) == [kind |-> "float", num |-> n, str |-> ""]
PyTime(n) == [kind |-> "time", num |-> n, str |-> ""]

(* The isoformat() string of the second n. *)
PyIsoTime(n) == [kind |-> "str", num |-> n, str |-> "isoformat"]

(* The value of the global before the first assignment (line 204).  A dict *)
(* is a sequence of <<key, value>> pairs, and every Reading has at least   *)
(* the two fixed pairs, so the empty sequence stands for None.             *)
None == <<>>

(* d[k] = v on an insertion-ordered dict: an existing key keeps its place. *)
DictSet(d, k, v) ==
    IF \E i \in 1..Len(d) : d[i][1] = k
    THEN [i \in 1..Len(d) |-> IF d[i][1] = k THEN <<k, v>> ELSE d[i]]
    ELSE Append(d, <<k, v>>)

DictKeys(d) == {d[i][1] : i \in 1..Len(d)}

DictGet(d, k) == d[CHOOSE i \in 1..Len(d) : d[i][1] = k][2]

-----------------------------------------------------------------------------
(* Configuration *)

DeviceName == "DeltaSol"

(* datetime.now() to the second, lines 122-123: two decodes can fall in    *)
(* the same second.                                                        *)
Times == {0, 1}

SensorNames == <<"temp1", "device">>

EnabledFlags == {"true", "false", "absent"}

(* One [[sensor]] subsection as written in jsolar.ini.  temp1 reads the    *)
(* byte at payload offset 5, which a 6-byte frame does not have; the       *)
(* sensor named device reads the byte at payload offset 0.                 *)
RawSensor(name, flag) ==
    [name |-> name,
     enabled |-> flag,
     type |-> "raw",
     offset |-> IF name = "temp1" THEN 5 ELSE 0,
     size |-> 1,
     position |-> 0,
     factor |-> 1,
     description |-> IF name = "temp1" THEN "Collector Temperature" ELSE "description",
     metrics |-> IF name = "temp1" THEN "gauge" ELSE "gague"]

RawConfigs ==
    {[i \in 1..Len(SensorNames) |-> RawSensor(SensorNames[i], f[i])] :
        f \in [1..Len(SensorNames) -> EnabledFlags]}

(* Validate with enabled = boolean(default=1): a sensor without the flag   *)
(* counts as enabled.                                                      *)
ValidateDefaultOn(sensor) ==
    [sensor EXCEPT !.enabled = (sensor.enabled # "false")]

(* enabled = boolean(default=0), line 96: the validator turns the written  *)
(* flag into a bool and supplies False for a missing one (line 106).       *)
Validate(sensor) ==
    [sensor EXCEPT !.enabled = (sensor.enabled = "true")]

RECURSIVE FilterEnabled(_)
FilterEnabled(sensors) ==
    IF sensors = <<>> THEN <<>>
    ELSE IF ~ Head(sensors).enabled
         THEN FilterEnabled(Tail(sensors))
         ELSE <<Head(sensors)>> \o FilterEnabled(Tail(sensors))

(* parse_config, lines 106-109: validate, then pop the sensors whose       *)
(* enabled flag is false.                                                  *)
parse_config(rawSensors) ==
    [device |-> DeviceName,
     sensors |-> FilterEnabled([i \in 1..Len(rawSensors) |-> Validate(rawSensors[i])])]

NoConfig == [device |-> DeviceName, sensors |-> <<>>]

SensorOf(cfg, name) ==
    cfg.sensors[CHOOSE i \in 1..Len(cfg.sensors) : cfg.sensors[i].name = name]

ActiveNames(cfg) == {cfg.sensors[i].name : i \in 1..Len(cfg.sensors)}

-----------------------------------------------------------------------------
(* Byte buffers.  Python indexes from 0. *)

At(buffer, i) == buffer[i + 1]

Slice(buffer, from, n) == [i \in 1..n |-> buffer[from + i]]

(* The buffer of dummy_serial, line 45. *)
DummyBuffer ==
    <<170, 16, 0, 120, 66, 16, 0, 1, 7, 29, 57, 0, 122, 1, 1, 74, 71, 2, 56,
      34, 4, 88, 0, 0, 0, 0, 0, 127, 68, 6, 0, 0, 1, 52, 0, 0, 0, 0, 0, 127,
      0, 0, 0, 3, 0, 124, 74, 0, 0, 0, 1, 52>>

-----------------------------------------------------------------------------
(* The field decoders of pyvbus (VBUSPacket), which is not part of this    *)
(* repository: offsets count from the byte after the 0xAA sync byte, an    *)
(* integer is little-endian and signed, and a field that does not lie      *)
(* within the buffer is an error.                                          *)

PyError == [kind |-> "error", num |-> 0, str |-> ""]

RECURSIVE Pow(_, _)
Pow(b, n) == IF n = 0 THEN 1 ELSE b * Pow(b, n - 1)

RECURSIVE LittleEndian(_)
LittleEndian(bytes) ==
    IF bytes = <<>> THEN 0 ELSE Head(bytes) + 256 * LittleEndian(Tail(bytes))

Signed(n, size) ==
    IF size > 0 /\ n >= Pow(2, 8 * size - 1) THEN n - Pow(2, 8 * size) ELSE n

InRange(buffer, offset, size) ==
    offset >= 0 /\ size >= 0 /\ offset + size <= Len(buffer) - 1

RawInteger(buffer, offset, size) ==
    Signed(LittleEndian(Slice(buffer, offset + 1, size)), size)

GetRawValue(buffer, offset, size) ==
    IF InRange(buffer, offset, size)
    THEN PyInt(RawInteger(buffer, offset, size))
    ELSE PyError

(* factor is kept in tenths: the result is a decimal in tenths. *)
GetTemperatureValue(buffer, offset, size, factor) ==
    IF InRange(buffer, offset, size)
    THEN PyTenths(RawInteger(buffer, offset, size) * factor)
    ELSE PyError

GetBitValue(buffer, offset, position) ==
    IF InRange(buffer, offset, 1)
    THEN PyBool((At(buffer, offset + 1) \div Pow(2, position)) % 2 = 1)
    ELSE PyError

GetTimeValue(buffer, offset, size) ==
    IF InRange(buffer, offset, size)
    THEN PyTime(RawInteger(buffer, offset, size))
    ELSE PyError

-----------------------------------------------------------------------------
(* ParseVbusPacket, lines 119-149 *)

(* Lines 137-138 passing size where position belongs. *)
SensorValueBitBySize(buffer, sensor) ==
    IF sensor.type = "bit"
    THEN GetBitValue(buffer, sensor.offset, sensor.size)
    ELSE IF sensor.type = "temperature"
    THEN GetTemperatureValue(buffer, sensor.offset, sensor.size, sensor.factor)
    ELSE IF sensor.type = "time"
    THEN GetTimeValue(buffer, sensor.offset, sensor.size)
    ELSE GetRawValue(buffer, sensor.offset, sensor.size)

(* Lines 126-142: the value of one sensor, by its type. *)
SensorValue(buffer, sensor) ==
    IF sensor.type = "raw"
    THEN GetRawValue(buffer, sensor.offset, sensor.size)
    ELSE IF sensor.type = "temperature"
    THEN GetTemperatureValue(buffer, sensor.offset, sensor.size, sensor.factor)
    ELSE IF sensor.type = "bit"
    THEN GetBitValue(buffer, sensor.offset, sensor.position)
    ELSE IF sensor.type = "time"
    THEN GetTimeValue(buffer, sensor.offset, sensor.size)
    ELSE GetRawValue(buffer, sensor.offset, sensor.size)

(* Lines 124-143: the loop over config['sensors'].  The result is the dict *)
(* built so far, or "raised" once a decoder has failed: nothing catches    *)
(* the exception, so the dict under construction is lost.                  *)
RECURSIVE ParseSensors(_, _, _)
ParseSensors(buffer, sensors, dict) ==
    IF sensors = <<>> THEN [exc |-> "none", dict |-> dict]
    ELSE LET value == SensorValue(buffer, Head(sensors))
         IN  IF value = PyError
             THEN [exc |-> "DecodeError", dict |-> None]
             ELSE ParseSensors(buffer, Tail(sensors),
                               DictSet(dict, Head(sensors).name, value))

(* Lines 121-123: the two fixed entries, device first. *)
FixedFields(cfg, now) ==
    <<<<"device", PyStr(cfg.device)>>, <<"timestamp", PyIsoTime(now)>>>>

(* ParseVbusPacket handing out its dict before the loop has filled it. *)
ParseVbusPacketUnfilled(buffer, cfg, now) ==
    [exc |-> "none", dict |-> FixedFields(cfg, now)]

(* ParseVbusPacket(buffer).get_parse_result(), lines 119-149. *)
ParseVbusPacket(buffer, cfg, now) ==
    ParseSensors(buffer, cfg.sensors, FixedFields(cfg, now))

-----------------------------------------------------------------------------
(* The latest reading *)

(* An assignment that only takes effect while the global is None. *)
StoreWriteOnce(old, new) == IF old = None THEN new ELSE old

(* The assignment of line 65 publishing only what the dict holds before    *)
(* the loop over the sensors (lines 121-123) has filled it.                *)
StoreWritePartial(old, new) == SubSeq(new, 1, 2)

(* The new dict merged into the old one with the old values kept          *)
(* (setdefault), instead of the global being rebound.                      *)
StoreWriteOldWins(old, new) ==
    IF old = None THEN new
    ELSE [i \in 1..Len(new) |->
            IF new[i][1] \in DictKeys(old)
            THEN <<new[i][1], DictGet(old, new[i][1])>>
            ELSE new[i]]

(* parsed_datagram = <Reading>, lines 47 and 66: the global is rebound to  *)
(* the new dict.                                                           *)
StoreWrite(old, new) == new

-----------------------------------------------------------------------------
(* data_received, lines 56-66 *)

Bytes == {0, VersionMarker, Delimiter}

RECURSIVE SeqsUpTo(_, _)
SeqsUpTo(S, n) ==
    IF n = 0 THEN {<<>>}
    ELSE LET shorter == SeqsUpTo(S, n - 1)
         IN  shorter \cup {Append(s, b) : s \in shorter, b \in S}

(* What r.readuntil(b'\xaa') can return: the bytes up to and including the *)
(* next delimiter.                                                         *)
Chunks == {Append(s, Delimiter) : s \in SeqsUpTo(Bytes \ {Delimiter}, MaxChunk)}

(* Lines 61-62 without line 63: the delimiter read last stays. *)
CandidateFrameUntrimmed(chunk) == <<Delimiter>> \o chunk

(* Lines 61-63: the candidate frame made of one chunk. *)
CandidateFrame(chunk) ==
    LET buffer == <<Delimiter>> \o chunk
    IN  SubSeq(buffer, 1, Len(buffer) - 1)

(* Line 64 comparing byte 4 instead of byte 5 with 0x10. *)
FrameCheckWrongIndex(buffer) ==
    IF ~ (Len(buffer) >= MinLen) THEN "skip"
    ELSE IF At(buffer, VersionIndex - 1) = VersionMarker THEN "accept"
    ELSE "skip"

(* Line 64 without the comparison with 0x10. *)
FrameCheckLengthOnly(buffer) ==
    IF ~ (Len(buffer) >= MinLen) THEN "skip"
    ELSE IF VersionIndex >= Len(buffer) THEN "IndexError"
    ELSE "accept"

(* Line 64: len(buffer) >= 5 and buffer[5] == 0x10.  Indexing a bytearray  *)
(* beyond its end raises IndexError.                                       *)
FrameCheck(buffer) ==
    IF ~ (Len(buffer) >= MinLen) THEN "skip"
    ELSE IF VersionIndex >= Len(buffer) THEN "IndexError"
    ELSE IF At(buffer, VersionIndex) = VersionMarker THEN "accept"
    ELSE "skip"

-----------------------------------------------------------------------------
(* handle_signals, lines 188-199, and the event loop that runs its tasks.  *)
(* L is the state of the loop and its tasks while a callback runs: x the   *)
(* task of run_until_complete, coro the line of its coroutine, rpc, rexc   *)
(* and rq the reader task (position, exception, step queued), sh the       *)
(* shutdown tasks, cell the variable s, q the callbacks scheduled for the  *)
(* next turn, stop whether stop() was called in this turn.                 *)

(* Line 189: the tuple the for loop runs over. *)
Signals == <<"SIGHUP", "SIGTERM", "SIGINT">>

(* Line 189: the loop variable s after the loop, the one variable that all *)
(* three lambdas of line 190 share.                                        *)
LoopVariable(sigs) == sigs[Len(sigs)]

(* Line 190: lambda: asyncio.create_task(shutdown(s)).  The lambda that    *)
(* was registered for the signal registered reads s when it is called;     *)
(* cell is the value s has then.                                           *)
LambdaArgument(registered, cell) == cell

(* The task states in which asyncio.all_tasks() returns the task: a reader *)
(* that is new, waits in readuntil or is being cancelled, a task handed to *)
(* run_until_complete that is queued or waits, a shutdown task that is     *)
(* ready, waits in gather or was woken by it.                              *)
NotDone == {"new", "sync", "read", "cancelling", "queued", "waiting",
            "ready", "woken"}

(* A callback in the loop's queue of ready handles: cb says what it runs,  *)
(* k is the shutdown task it belongs to (0: none), got the signal whose    *)
(* handler it is ("": none).                                               *)
Cb(cb, k) == [cb |-> cb, k |-> k, got |-> ""]

Handler(sig) == [cb |-> "lambda", k |-> 0, got |-> sig]

(* The task that run_until_complete wraps around its coroutine: st is      *)
(* none, queued, waiting, done, cancelled or raised; steps counts the      *)
(* steps the coroutine has taken; cancelreq says that cancel() was called  *)
(* and CancelledError is to be thrown at the next step.                    *)
NoTask == [st |-> "none", steps |-> 0, cancelreq |-> FALSE, exc |-> "none"]

NewTask == [st |-> "queued", steps |-> 0, cancelreq |-> FALSE, exc |-> "none"]

NoChildren == [main |-> FALSE, reader |-> FALSE, sh |-> {}]

(* Line 190: the task created for shutdown(sig). *)
NewShutdown(sig) ==
    [sig |-> sig, st |-> "ready", cancelreq |-> FALSE,
     children |-> NoChildren, left |-> 0]

(* Whether the gather of shutdown task s (line 197) holds the task who     *)
(* (the shutdown task j when who is "sh") and still waits for it.          *)
Gathers(s, who, j) ==
    /\ s.st = "waiting"
    /\ CASE who = "main" -> s.children.main
         [] who = "reader" -> s.children.reader
         [] OTHER -> j \in s.children.sh

(* A sequence given as a function on 1..n, as a tuple. *)
AsSeq(f) == SubSeq(f, 1, Len(f))

(* The task who has ended: the done-callback of every gather that holds it *)
(* is queued, in the order the gathers were made.                          *)
Finish(L, who, j) ==
    LET idx == SelectSeq(AsSeq([k \in 1..Len(L.sh) |-> k]),
                         LAMBDA k : Gathers(L.sh[k], who, j))
    IN  [L EXCEPT
           !.q = @ \o AsSeq([i \in 1..Len(idx) |-> Cb("gathercb", idx[i])]),
           !.sh = AsSeq([k \in 1..Len(L.sh) |->
                     IF Gathers(L.sh[k], who, j)
                     THEN [L.sh[k] EXCEPT
                             !.children =
                                CASE who = "main" -> [@ EXCEPT !.main = FALSE]
                                  [] who = "reader" -> [@ EXCEPT !.reader = FALSE]
                                  [] OTHER -> [@ EXCEPT !.sh = @ \ {j}]]
                     ELSE L.sh[k]])]

(* The task of run_until_complete ends: the callback with which            *)
(* run_until_complete stops the loop was added first, so it is queued      *)
(* first.                                                                  *)
EndMain(L, st, exc) ==
    Finish([L EXCEPT !.x.st = st, !.x.exc = exc,
                     !.q = Append(@, Cb("stopcb", 0))],
           "main", 0)

(* setup_serial is inside asyncio.wait (line 53): from its first step to   *)
(* the step that follows its wake-up or its cancellation, the callback of  *)
(* asyncio.wait is a done-callback of the reader task.                     *)
InWait(L) ==
    /\ L.coro = "setup_serial"
    /\ L.x.steps = 1
    /\ L.x.st \in {"waiting", "queued"}

(* The reader task ends: asyncio.wait (line 53) added its callback first. *)
EndReader(L, exc) ==
    Finish([L EXCEPT !.rpc = "done", !.rexc = exc, !.rq = FALSE,
                     !.q = IF InWait(L)
                           THEN Append(@, Cb("waitcb", 0))
                           ELSE @],
           "reader", 0)

(* Shutdown task k ends in state st. *)
EndShutdown(L, k, st) == Finish([L EXCEPT !.sh[k].st = st], "sh", k)

(* task.cancel() on the task of run_until_complete: waiting at an await   *)
(* it is queued to be resumed with CancelledError; with its step queued    *)
(* already it gets CancelledError at that step.                            *)
CancelMain(L) ==
    IF L.x.st = "waiting"
    THEN [L EXCEPT !.x.st = "queued", !.x.cancelreq = TRUE,
                   !.q = Append(@, Cb("main", 0))]
    ELSE [L EXCEPT !.x.cancelreq = TRUE]

(* task.cancel() on the reader task, in the same way. *)
CancelReader(L) ==
    IF L.rq
    THEN [L EXCEPT !.rpc = "cancelling"]
    ELSE [L EXCEPT !.rpc = "cancelling", !.rq = TRUE,
                   !.q = Append(@, Cb("reader", 0))]

(* Line 196: task.cancel() on each task of others.  all_tasks() is a set,  *)
(* so the list has no fixed order: first names the one of the reader and   *)
(* the task of run_until_complete that is cancelled first.  A shutdown     *)
(* task that waits in gather gets CancelledError when its gather ends.     *)
cancel(L, others, first) ==
    LET M(K) == IF others.main THEN CancelMain(K) ELSE K
        R(K) == IF others.reader THEN CancelReader(K) ELSE K
        L2 == IF first = "main" THEN R(M(L)) ELSE M(R(L))
    IN  [L2 EXCEPT !.sh = AsSeq([j \in 1..Len(L2.sh) |->
                             IF j \in others.sh
                             THEN [L2.sh[j] EXCEPT !.cancelreq = TRUE]
                             ELSE L2.sh[j]])]

(* One step of the task of run_until_complete.  app_runner.setup() (line   *)
(* 180) ends in its first step; site.start() (lines 184, 185) yields once  *)
(* to the loop and ends in its second; setup_serial (lines 51-53) opens    *)
(* the port, starts data_received as a task and waits for it, or fails     *)
(* with the exception outcome, and returns when it is woken.               *)
StepMain(L, outcome) ==
    IF L.x.st # "queued" THEN L
    ELSE IF L.x.cancelreq THEN EndMain(L, "cancelled", "CancelledError")
    ELSE IF L.coro = "web_server" THEN EndMain(L, "done", "none")
    ELSE IF L.coro \in {"site4", "site6"}
    THEN IF L.x.steps = 0
         THEN [L EXCEPT !.x.steps = 1, !.q = Append(@, Cb("main", 0))]
         ELSE EndMain(L, "done", "none")
    ELSE IF L.x.steps = 0
         THEN IF outcome = "none"
              THEN [L EXCEPT !.x.st = "waiting", !.x.steps = 1,
                             !.rpc = "new", !.rq = TRUE,
                             !.q = Append(@, Cb("reader", 0))]
              ELSE EndMain(L, "raised", outcome)
         ELSE EndMain(L, "done", "none")

(* The tasks that line 194 finds for shutdown task k. *)
OtherTasks(L, k) ==
    [main |-> L.x.st \in NotDone,
     reader |-> L.rpc \in NotDone,
     sh |-> {j \in (1..Len(L.sh)) \ {k} : L.sh[j].st \in NotDone}]

(* A step of shutdown task k, lines 192-199.  Cancelled before its first   *)
(* step it executes nothing.  Otherwise line 196 cancels the other tasks   *)
(* and line 197 waits for them; gather() of no task is done at once and    *)
(* line 199 runs in the same step.  Woken by its gather, or cancelled      *)
(* while waiting in it, the task runs line 199.                            *)
StepShutdown(L, k, first) ==
    LET s == L.sh[k]
        others == OtherTasks(L, k)
        n == (IF others.main THEN 1 ELSE 0) + (IF others.reader THEN 1 ELSE 0)
             + Cardinality(others.sh)
    IN  IF s.st = "ready"
        THEN IF s.cancelreq THEN EndShutdown(L, k, "cancelled")
             ELSE IF n = 0
             THEN EndShutdown([L EXCEPT !.stop = TRUE], k, "done")
             ELSE [cancel(L, others, first) EXCEPT !.sh[k].st = "waiting",
                                            !.sh[k].children = others,
                                            !.sh[k].left = n]
        ELSE IF s.st = "woken"
        THEN EndShutdown([L EXCEPT !.stop = TRUE], k,
                         IF s.cancelreq THEN "cancelled" ELSE "done")
        ELSE L

(* The done-callback of the gather of shutdown task k: the last task it    *)
(* waited for wakes the shutdown task.                                     *)
GatherCb(L, k) ==
    IF L.sh[k].st = "waiting" /\ L.sh[k].left = 1
    THEN [L EXCEPT !.sh[k].left = 0, !.sh[k].st = "woken",
                   !.q = Append(@, Cb("shutdown", k))]
    ELSE [L EXCEPT !.sh[k].left = IF @ > 0 THEN @ - 1 ELSE 0]

(* One callback of the queue other than a step of the reader task. *)
RunCallback(c, L, outcome, first) ==
    CASE c.cb = "main" -> StepMain(L, outcome)
      [] c.cb = "waitcb" ->
            IF L.x.st = "waiting"
            THEN [L EXCEPT !.x.st = "queued", !.q = Append(@, Cb("main", 0))]
            ELSE L
      [] c.cb = "stopcb" -> [L EXCEPT !.stop = TRUE]
      [] c.cb = "lambda" ->
            [L EXCEPT !.sh = Append(@, NewShutdown(LambdaArgument(c.got, L.cell))),
                      !.q = Append(@, Cb("shutdown", Len(L.sh) + 1))]
      [] c.cb = "shutdown" -> StepShutdown(L, c.k, first)
      [] c.cb = "gathercb" -> GatherCb(L, c.k)
      [] OTHER -> L

(* The handlers of the queue, in order. *)
Lambdas(q) == SelectSeq(q, LAMBDA c : c.cb = "lambda")

-----------------------------------------------------------------------------
(* jsolar_app, lines 152-175 *)

(* json.dumps of one value. *)
JsonValue(v) ==
    [v EXCEPT !.kind = CASE v.kind = "None" -> "null"
                         [] v.kind = "str" -> "string"
                         [] v.kind = "bool" -> IF v.num = 1 THEN "true" ELSE "false"
                         [] OTHER -> "number"]

(* str() of one value. *)
PyStrOf(v) ==
    CASE v.kind = "None" -> "None"
      [] v.kind = "str" -> v.str
      [] v.kind = "bool" -> IF v.num = 1 THEN "True" ELSE "False"
      [] v.kind = "float" ->
            (IF v.num < 0 THEN "-" ELSE "")
            \o ToString((IF v.num < 0 THEN 0 - v.num ELSE v.num) \div 10) \o "."
            \o ToString((IF v.num < 0 THEN 0 - v.num ELSE v.num) % 10)
      [] OTHER -> ToString(v.num)

(* json_handler, lines 153-156. *)
json_handler(pd) ==
    IF pd = None
    THEN [route |-> "/", status |-> 503, body |-> <<>>]
    ELSE [route |-> "/", status |-> 200,
          body |-> [i \in 1..Len(pd) |-> <<pd[i][1], JsonValue(pd[i][2])>>]]

(* Lines 164-168 with the TYPE line written before the HELP line. *)
MetricBlockTypeFirst(pd, cfg, metric) ==
    <<<<"# TYPE", metric, SensorOf(cfg, metric).metrics>>,
      <<"# HELP", metric, SensorOf(cfg, metric).description>>,
      <<"sample", metric, PyStrOf(DictGet(pd, metric))>>>>

(* Lines 164-168: the three lines of one metric. *)
MetricBlock(pd, cfg, metric) ==
    <<<<"# HELP", metric, SensorOf(cfg, metric).description>>,
      <<"# TYPE", metric, SensorOf(cfg, metric).metrics>>,
      <<"sample", metric, PyStrOf(DictGet(pd, metric))>>>>

(* The loop of lines 162-168 without the test of line 163: device and      *)
(* timestamp are looked up in config['sensors'] like any other key.        *)
RECURSIVE MetricLinesNoSkip(_, _, _)
MetricLinesNoSkip(pd, cfg, i) ==
    IF i > Len(pd) THEN [exc |-> "none", text |-> <<>>]
    ELSE LET metric == pd[i][1]
             rest == MetricLinesNoSkip(pd, cfg, i + 1)
         IN  IF metric \notin ActiveNames(cfg) \/ rest.exc # "none"
             THEN [exc |-> "KeyError", text |-> <<>>]
             ELSE [exc |-> "none",
                   text |-> MetricBlock(pd, cfg, metric) \o rest.text]

(* Lines 162-168: the loop over the keys of parsed_datagram; a key that    *)
(* config['sensors'] does not have raises KeyError.                        *)
RECURSIVE MetricLines(_, _, _)
MetricLines(pd, cfg, i) ==
    IF i > Len(pd) THEN [exc |-> "none", text |-> <<>>]
    ELSE LET metric == pd[i][1]
             rest == MetricLines(pd, cfg, i + 1)
         IN  IF metric \in {"device", "timestamp"} THEN rest
             ELSE IF metric \notin ActiveNames(cfg) \/ rest.exc # "none"
                  THEN [exc |-> "KeyError", text |-> <<>>]
                  ELSE [exc |-> "none",
                        text |-> MetricBlock(pd, cfg, metric) \o rest.text]

(* prometheus_handler without the test for None of lines 159-160. *)
prometheus_handlerNoGuard(pd, cfg) ==
    LET r == MetricLines(pd, cfg, 1)
    IN  IF r.exc # "none"
        THEN [route |-> "/metrics", status |-> 500, body |-> <<>>]
        ELSE [route |-> "/metrics", status |-> 200, body |-> r.text]

(* prometheus_handler, lines 158-169. *)
prometheus_handler(pd, cfg) ==
    IF pd = None
    THEN [route |-> "/metrics", status |-> 503, body |-> <<>>]
    ELSE LET r == MetricLines(pd, cfg, 1)
         IN  IF r.exc # "none"
             THEN [route |-> "/metrics", status |-> 500, body |-> <<>>]
             ELSE [route |-> "/metrics", status |-> 200, body |-> r.text]

NoResp == [route |-> "", status |-> 0, body |-> <<>>]

-----------------------------------------------------------------------------
(* The process *)

NoFrame == [len |-> 0, ver |-> -1, decoded |-> FALSE]

(* What the history keeps of a candidate frame: its length, its byte 5 if  *)
(* it has one, and whether ParseVbusPacket was called on it.               *)
FrameSummary(buffer, decoded) ==
    [len |-> Len(buffer),
     ver |-> IF Len(buffer) > 5 THEN At(buffer, 5) ELSE -1,
     decoded |-> decoded]

(* A frame the reader is meant to store: at least 6 bytes, version 0x10,   *)
(* and every active sensor's field inside it.                              *)
GoodFrame(buffer, cfg) ==
    /\ Len(buffer) >= 6
    /\ buffer[6] = 16
    /\ \A i \in 1..Len(cfg.sensors) :
          InRange(buffer, cfg.sensors[i].offset, cfg.sensors[i].size)

InitProcess ==
    /\ config = NoConfig
    /\ parsed_datagram = None
    /\ mainpc = "parse_config"
    /\ mainExc = "none"
    /\ readerpc = "off"
    /\ readerExc = "none"
    /\ resp = NoResp
    /\ served = 0
    /\ last = NoFrame
    /\ frames = 0
    /\ writes = 0
    /\ good = 0
    /\ writer = "none"
    /\ latest = None
    /\ handlers = {}
    /\ closure_s = "unbound"
    /\ shutdowns = <<>>
    /\ pending = <<>>
    /\ loop = "idle"
    /\ xtask = NoTask
    /\ ready = <<>>
    /\ batch = <<>>
    /\ stopping = FALSE
    /\ rqueued = FALSE
    /\ pos = 0
    /\ cands = <<>>

(* The process with either line 211 or line 215 active, any jsolar.ini of  *)
(* RawConfigs; the bytes the serial line delivers are chosen as they are    *)
(* read.                                                                   *)
Init ==
    /\ InitProcess
    /\ deploy \in {"dummy", "serial"}
    /\ raw \in RawConfigs
    /\ line = <<>>

(* main, line 210. *)
ParseConfig ==
    /\ mainpc = "parse_config"
    /\ config' = parse_config(raw)
    /\ mainpc' = IF deploy = "dummy" THEN "dummy_serial" ELSE "handle_signals"
    /\ UNCHANGED <<deploy, raw, parsed_datagram, mainExc, readerpc, readerExc,
                   resp, served, last, frames, writes, good, writer, latest>>
    /\ UNCHANGED <<sigvars, loopvars, linevars>>

(* main, line 211: dummy_serial, lines 41-47.  An exception of the decoder *)
(* leaves main().                                                          *)
DummySerial ==
    /\ mainpc = "dummy_serial"
    /\ \E now \in Times :
          LET r == ParseVbusPacket(DummyBuffer, config, now)
          IN  IF r.exc = "none"
              THEN /\ parsed_datagram' = StoreWrite(parsed_datagram, r.dict)
                   /\ latest' = r.dict
                   /\ writer' = "dummy_serial"
                   /\ mainpc' = "handle_signals"
                   /\ mainExc' = mainExc
              ELSE /\ mainpc' = "exited"
                   /\ mainExc' = r.exc
                   /\ UNCHANGED <<parsed_datagram, latest, writer>>
    /\ UNCHANGED <<deploy, raw, config, readerpc, readerExc, resp, served,
                   last, frames, writes, good>>
    /\ UNCHANGED <<sigvars, loopvars, linevars>>

(* main, line 213: handle_signals, lines 189-190.  Each signal of the      *)
(* tuple gets a handler; the loop variable keeps its last value.           *)
HandleSignals ==
    /\ mainpc = "handle_signals"
    /\ mainpc' = "web_server"
    /\ handlers' = {Signals[i] : i \in 1..Len(Signals)}
    /\ closure_s' = LoopVariable(Signals)
    /\ UNCHANGED <<deploy, raw, config, parsed_datagram, mainExc, readerpc,
                   readerExc, resp, served, last, frames, writes, good,
                   writer, latest>>
    /\ UNCHANGED <<shutdowns, pending, loopvars, linevars>>

(* event_loop.run_until_complete(coroutine), up to the point where the     *)
(* loop runs: the coroutine is wrapped in a task, whose first step is      *)
(* queued behind whatever the queue still holds.                           *)
RunUntilComplete(coro) ==
    /\ mainpc = coro
    /\ loop = "idle"
    /\ xtask' = NewTask
    /\ ready' = Append(ready, Cb("main", 0))
    /\ loop' = "running"
    /\ UNCHANGED <<deploy, raw, config, parsed_datagram, mainpc, mainExc,
                   readerpc, readerExc, resp, served, last, frames, writes,
                   good, writer, latest, batch, stopping, rqueued>>
    /\ UNCHANGED <<sigvars, linevars>>

(* web_server, line 180: run_until_complete(app_runner.setup()). *)
AppRunnerSetup == RunUntilComplete("web_server")

(* web_server, line 184: run_until_complete(site4.start()). *)
Site4Start == RunUntilComplete("site4")

(* web_server, line 185: run_until_complete(site6.start()). *)
Site6Start == RunUntilComplete("site6")

(* main, line 215: run_until_complete(setup_serial()). *)
SetupSerial == RunUntilComplete("setup_serial")

(* The line of main() and web_server() after the run_until_complete at     *)
(* coro.                                                                   *)
NextLine(coro, d) ==
    CASE coro = "web_server" -> "site4"
      [] coro = "site4" -> "site6"
      [] coro = "site6" -> IF d = "serial" THEN "setup_serial" ELSE "run_forever"
      [] OTHER -> "run_forever"

(* run_until_complete after its loop has stopped: it returns the task's    *)
(* result, raises the task's exception or CancelledError, or raises        *)
(* RuntimeError when the loop was stopped before the task was done.  An    *)
(* exception leaves web_server() and main().  asyncio.wait (line 53) never *)
(* raises the reader's exception, so setup_serial returns normally once    *)
(* the reader is done.                                                     *)
RunUntilCompleteReturns ==
    /\ mainpc \in {"web_server", "site4", "site6", "setup_serial"}
    /\ loop = "stopped"
    /\ loop' = "idle"
    /\ xtask' = NoTask
    /\ IF xtask.st = "done"
       THEN /\ mainpc' = NextLine(mainpc, deploy)
            /\ mainExc' = mainExc
       ELSE /\ mainpc' = "exited"
            /\ mainExc' = IF xtask.st \in {"cancelled", "raised"}
                          THEN xtask.exc
                          ELSE "RuntimeError"
    /\ UNCHANGED <<deploy, raw, config, parsed_datagram, readerpc, readerExc,
                   resp, served, last, frames, writes, good, writer, latest,
                   ready, batch, stopping, rqueued>>
    /\ UNCHANGED <<sigvars, linevars>>

(* main, line 216: run_forever() starts the loop. *)
RunForever ==
    /\ mainpc = "run_forever"
    /\ loop = "idle"
    /\ loop' = "running"
    /\ UNCHANGED <<deploy, raw, config, parsed_datagram, mainpc, mainExc,
                   readerpc, readerExc, resp, served, last, frames, writes,
                   good, writer, latest, xtask, ready, batch, stopping,
                   rqueued>>
    /\ UNCHANGED <<sigvars, linevars>>

(* main, line 216: run_forever() returns after event_loop.stop(), and      *)
(* main() ends.                                                            *)
RunForeverReturns ==
    /\ mainpc = "run_forever"
    /\ loop = "stopped"
    /\ loop' = "idle"
    /\ mainpc' = "exited"
    /\ UNCHANGED <<deploy, raw, config, parsed_datagram, mainExc, readerpc,
                   readerExc, resp, served, last, frames, writes, good,
                   writer, latest, xtask, ready, batch, stopping, rqueued>>
    /\ UNCHANGED <<sigvars, linevars>>

(* The results setup_serial's first step can have: the port opens and the  *)
(* reader is started, or opening the port fails, or (from Python 3.11 on)  *)
(* asyncio.wait refuses a coroutine with a TypeError.                      *)
Outcomes == {"none", "SerialException", "TypeError"}

(* Which of the two tasks line 196 can find first in the set all_tasks(). *)
Firsts == {"main", "reader"}

(* The callbacks of the turn the loop is in that have not run yet; between *)
(* two turns, those of the next turn.                                      *)
Batch == IF batch = <<>> THEN ready ELSE batch

(* The loop and its tasks as the next callback finds them. *)
Here ==
    [x |-> xtask, coro |-> mainpc, rpc |-> readerpc, rexc |-> readerExc,
     rq |-> rqueued, sh |-> shutdowns, cell |-> closure_s,
     q |-> IF batch = <<>> THEN <<>> ELSE ready,
     stop |-> stopping]

(* What the select() of a turn finds about the serial port: nothing, or    *)
(* bytes (or the end of the line) that arrived before the signals it finds *)
(* ("first") or after the first of them ("last").                          *)
Ports == {"none", "first", "last"}

(* The callback with which the port hands its bytes to the StreamReader    *)
(* wakes the reader task if it waits in readuntil.                         *)
Wakes(L, port) == port # "none" /\ L.rpc \in {"sync", "read"} /\ ~ L.rq

(* What the callbacks of the port and of the signals queue at the end of a *)
(* turn, in the order in which the two became readable: the step of the    *)
(* woken reader task and the handlers of the signals.                      *)
Noticed(L, port) ==
    LET hs == AsSeq([i \in 1..Len(pending) |-> Handler(pending[i])])
        w == IF Wakes(L, port) THEN <<Cb("reader", 0)>> ELSE <<>>
    IN  IF port = "first" THEN w \o hs ELSE hs \o w

(* A callback has run and left the loop and its tasks as L; rest are the   *)
(* callbacks of the turn still to run.  After the last one the turn ends   *)
(* with the callbacks of what its select() found readable, which queue     *)
(* behind what the callbacks of the turn scheduled, and the loop ends if   *)
(* one of them called stop().  The port is an input of the steps that end  *)
(* a turn with the reader task waiting, and its place among the signals    *)
(* one of the turns that found signals.                                    *)
Commit(L, rest, port) ==
    /\ port # "none" => rest = <<>> /\ Wakes(L, port)
    /\ port = "last" => pending # <<>>
    /\ xtask' = L.x
    /\ readerpc' = L.rpc
    /\ readerExc' = L.rexc
    /\ shutdowns' = L.sh
    /\ batch' = rest
    /\ IF rest = <<>>
       THEN /\ ready' = L.q \o Noticed(L, port)
            /\ rqueued' = (L.rq \/ Wakes(L, port))
            /\ pending' = <<>>
            /\ loop' = IF L.stop THEN "stopped" ELSE "running"
            /\ stopping' = FALSE
       ELSE /\ ready' = L.q
            /\ rqueued' = L.rq
            /\ pending' = pending
            /\ loop' = loop
            /\ stopping' = L.stop

(* The loop, inside run_until_complete or run_forever, runs the next       *)
(* callback of its queue, other than a step of the reader task.  The       *)
(* outcome is chosen for the step of setup_serial that opens the port, and *)
(* the order of all_tasks() for a step of a shutdown task.                 *)
Callback(outcome, first, port) ==
    /\ loop = "running"
    /\ Batch # <<>>
    /\ Head(Batch).cb # "reader"
    /\ outcome # "none" =>
          Head(Batch).cb = "main" /\ mainpc = "setup_serial" /\ xtask.steps = 0
    /\ first # "main" => Head(Batch).cb = "shutdown"
    /\ Commit(RunCallback(Head(Batch), Here, outcome, first), Tail(Batch), port)
    /\ UNCHANGED <<deploy, raw, config, parsed_datagram, mainpc, mainExc,
                   resp, served, last, frames, writes, good, writer, latest,
                   handlers, closure_s, linevars>>

(* A turn of the loop in which nothing was ready but a signal or bytes had *)
(* arrived: their callbacks run.                                           *)
NoticeEvents(port) ==
    /\ loop = "running"
    /\ batch = <<>>
    /\ ready = <<>>
    /\ pending # <<>> \/ port # "none"
    /\ Commit(Here, <<>>, port)
    /\ UNCHANGED <<deploy, raw, config, parsed_datagram, mainpc, mainExc,
                   resp, served, last, frames, writes, good, writer, latest,
                   handlers, closure_s, linevars>>

(* The next callback of the loop is a step of the reader task. *)
ReaderRuns ==
    /\ loop = "running"
    /\ Batch # <<>>
    /\ Head(Batch).cb = "reader"

(* Which bytes have arrived when the reader task reads is not kept: each   *)
(* readuntil of a step returns, waits or raises, as the bytes that arrived *)
(* before the turn make it.                                                *)

(* Line 59: a delimiter has arrived; the bytes up to it are read and       *)
(* dropped and the step goes on to line 61.                                *)
data_received_sync ==
    /\ ReaderRuns
    /\ readerpc \in {"new", "sync"}
    /\ Commit([Here EXCEPT !.rpc = "read"], Batch, "none")
    /\ UNCHANGED <<deploy, raw, config, parsed_datagram, mainpc, mainExc,
                   resp, served, last, frames, writes, good, writer, latest,
                   handlers, closure_s>>

(* Lines 59 and 62: the stream has ended without another delimiter and     *)
(* readuntil raises IncompleteReadError; nothing in data_received catches  *)
(* it, so the task ends with it.                                           *)
data_received_raises ==
    /\ ReaderRuns
    /\ readerpc \in {"new", "sync", "read"}
    /\ Commit(EndReader(Here, "IncompleteReadError"), Tail(Batch), "none")
    /\ UNCHANGED <<deploy, raw, config, parsed_datagram, mainpc, mainExc,
                   resp, served, last, frames, writes, good, writer, latest,
                   handlers, closure_s>>

(* Lines 61-66: one iteration of the loop, from the return of readuntil    *)
(* with the bytes chunk to the next readuntil, which the same step of the  *)
(* task goes on to.                                                        *)
data_received_iteration(chunk) ==
    /\ ReaderRuns
    /\ readerpc = "read"
    /\ LET buffer == CandidateFrame(chunk)
           check == FrameCheck(buffer)
       IN  /\ frames' = frames + 1
           /\ good' = IF GoodFrame(buffer, config) THEN good + 1 ELSE good
           /\ last' = FrameSummary(buffer, check = "accept")
           /\ IF check = "skip"
              THEN /\ Commit(Here, Batch, "none")
                   /\ UNCHANGED <<parsed_datagram, writes, writer, latest>>
              ELSE IF check = "IndexError"
              THEN /\ Commit(EndReader(Here, "IndexError"), Tail(Batch), "none")
                   /\ UNCHANGED <<parsed_datagram, writes, writer, latest>>
              ELSE \E now \in Times :
                     LET r == ParseVbusPacket(buffer, config, now)
                     IN  IF r.exc = "none"
                         THEN /\ parsed_datagram' = StoreWrite(parsed_datagram, r.dict)
                              /\ latest' = r.dict
                              /\ writer' = "data_received"
                              /\ writes' = writes + 1
                              /\ Commit(Here, Batch, "none")
                         ELSE /\ Commit(EndReader(Here, r.exc), Tail(Batch), "none")
                              /\ UNCHANGED <<parsed_datagram, writes, writer,
                                             latest>>
    /\ UNCHANGED <<deploy, raw, config, mainpc, mainExc, resp, served,
                   handlers, closure_s>>

(* Lines 59 and 62: no further delimiter has arrived and readuntil waits   *)
(* for more bytes: the step of the reader task ends.                       *)
ReaderWaits(port) ==
    /\ ReaderRuns
    /\ readerpc \in {"new", "sync", "read"}
    /\ Commit([Here EXCEPT !.rpc = IF @ = "new" THEN "sync" ELSE @,
                           !.rq = FALSE],
              Tail(Batch), port)
    /\ UNCHANGED <<deploy, raw, config, parsed_datagram, mainpc, mainExc,
                   resp, served, last, frames, writes, good, writer, latest,
                   handlers, closure_s, linevars>>

(* The step of a reader task that was cancelled: CancelledError is thrown  *)
(* at its readuntil, or before its first step, whatever bytes have         *)
(* arrived; nothing in lines 56-66 catches it.                             *)
ReaderCancelled ==
    /\ ReaderRuns
    /\ readerpc = "cancelling"
    /\ Commit(EndReader(Here, "CancelledError"), Tail(Batch), "none")
    /\ UNCHANGED <<deploy, raw, config, parsed_datagram, mainpc, mainExc,
                   resp, served, last, frames, writes, good, writer, latest,
                   handlers, closure_s, linevars>>

(* The reader reading bytes that are chosen as they are read: the bytes of *)
(* the line are not kept.  A run takes MaxFrames candidate frames.         *)
ReaderSync == data_received_sync /\ UNCHANGED linevars

ReadFails == data_received_raises /\ UNCHANGED linevars

ReadFrame(chunk) ==
    /\ frames < MaxFrames
    /\ data_received_iteration(chunk)
    /\ UNCHANGED linevars

(* The bytes of the line not read yet. *)
Unread == SubSeq(line, pos + 1, Len(line))

(* StreamReader.readuntil(b'\xaa') on the unread bytes: the bytes up to    *)
(* and including the first delimiter, which it consumes; without a         *)
(* delimiter before the end of the stream, IncompleteReadError, and the    *)
(* bytes that were left are consumed too.                                  *)
readuntil(unread) ==
    IF \E i \in 1..Len(unread) : unread[i] = Delimiter
    THEN LET first == CHOOSE i \in 1..Len(unread) :
                         /\ unread[i] = Delimiter
                         /\ \A k \in 1..(i - 1) : unread[k] # Delimiter
         IN  [exc |-> "none", data |-> SubSeq(unread, 1, first),
              consumed |-> first]
    ELSE [exc |-> "IncompleteReadError", data |-> <<>>,
          consumed |-> Len(unread)]

(* The reader fed by the bytes of line. *)
StreamSync ==
    /\ readuntil(Unread).exc = "none"
    /\ data_received_sync
    /\ pos' = pos + readuntil(Unread).consumed
    /\ UNCHANGED <<line, cands>>

StreamFails ==
    /\ readuntil(Unread).exc # "none"
    /\ data_received_raises
    /\ pos' = pos + readuntil(Unread).consumed
    /\ UNCHANGED <<line, cands>>

StreamFrame ==
    /\ readuntil(Unread).exc = "none"
    /\ data_received_iteration(readuntil(Unread).data)
    /\ pos' = pos + readuntil(Unread).consumed
    /\ cands' = Append(cands, CandidateFrame(readuntil(Unread).data))
    /\ line' = line

(* The two sites listen once site4.start() has taken its first step (line  *)
(* 184); a request is handled in a turn of its own of the running loop.    *)
Serving ==
    /\ loop = "running"
    /\ batch = <<>>
    /\ \/ mainpc \in {"site6", "setup_serial", "run_forever"}
       \/ mainpc = "site4" /\ xtask.steps >= 1

(* GET /, lines 153-156: the handler has no await. *)
GetJson ==
    /\ Serving
    /\ served < MaxRequests
    /\ resp' = json_handler(parsed_datagram)
    /\ served' = served + 1
    /\ UNCHANGED <<deploy, raw, config, parsed_datagram, mainpc, mainExc,
                   readerpc, readerExc, last, frames, writes, good, writer,
                   latest>>
    /\ UNCHANGED <<sigvars, loopvars, linevars>>

(* GET /metrics, lines 158-169: the handler has no await. *)
GetMetrics ==
    /\ Serving
    /\ served < MaxRequests
    /\ resp' = prometheus_handler(parsed_datagram, config)
    /\ served' = served + 1
    /\ UNCHANGED <<deploy, raw, config, parsed_datagram, mainpc, mainExc,
                   readerpc, readerExc, last, frames, writes, good, writer,
                   latest>>
    /\ UNCHANGED <<sigvars, loopvars, linevars>>

(* The signals the process has got so far. *)
Delivered == Len(pending) + Len(Lambdas(ready)) + Len(shutdowns)

(* A signal with a handler arrives at the process, whether the loop runs   *)
(* or main() is between two runs of it: the next turn that begins notices  *)
(* it and queues the lambda of line 190.                                   *)
Signal(sig) ==
    /\ sig \in handlers
    /\ mainpc # "exited"
    /\ batch = <<>>
    /\ Delivered < MaxSignals
    /\ pending' = Append(pending, sig)
    /\ UNCHANGED <<deploy, raw, config, parsed_datagram, mainpc, mainExc,
                   readerpc, readerExc, resp, served, last, frames, writes,
                   good, writer, latest, handlers, closure_s, shutdowns,
                   loopvars, linevars>>

Next ==
    \/ ParseConfig
    \/ DummySerial
    \/ HandleSignals
    \/ AppRunnerSetup
    \/ Site4Start
    \/ Site6Start
    \/ SetupSerial
    \/ RunUntilCompleteReturns
    \/ RunForever
    \/ \E outcome \in Outcomes, first \in Firsts, port \in Ports :
          Callback(outcome, first, port)
    \/ \E port \in Ports : NoticeEvents(port)
    \/ ReaderSync
    \/ ReadFails
    \/ \E chunk \in Chunks : ReadFrame(chunk)
    \/ \E port \in Ports : ReaderWaits(port)
    \/ GetJson
    \/ GetMetrics

Spec == Init /\ [][Next]_vars

(* The same process with termination signals and without HTTP requests,   *)
(* whose handlers have no await and so are never a task that shutdown      *)
(* could find.  main() runs on and the loop runs its next callback         *)
(* whenever it has one, or a signal to handle.                             *)
ShutdownConfig ==
    [i \in 1..Len(SensorNames) |-> RawSensor(SensorNames[i], "true")]

(* What readuntil returns in these runs: two frames that decode, to        *)
(* different values, a frame of five bytes and an empty one.               *)
ShutdownChunks ==
    {<<0, 0, 0, 0, VersionMarker, 0, Delimiter>>,
     <<VersionMarker, 0, 0, 0, VersionMarker, VersionMarker, Delimiter>>,
     <<0, 0, 0, 0, Delimiter>>,
     <<Delimiter>>}

InitShutdown ==
    /\ InitProcess
    /\ deploy \in {"dummy", "serial"}
    /\ raw = ShutdownConfig
    /\ line = <<>>

(* What main() and the loop do on their own, whatever arrives. *)
Runs ==
    \/ AppRunnerSetup
    \/ Site4Start
    \/ Site6Start
    \/ SetupSerial
    \/ RunUntilCompleteReturns
    \/ RunForever
    \/ RunForeverReturns
    \/ \E outcome \in Outcomes, first \in Firsts :
          Callback(outcome, first, "none")
    \/ NoticeEvents("none")
    \/ ReaderSync
    \/ ReadFails
    \/ \E chunk \in ShutdownChunks : ReadFrame(chunk)
    \/ ReaderWaits("none")
    \/ ReaderCancelled

NextShutdown ==
    \/ ParseConfig
    \/ DummySerial
    \/ HandleSignals
    \/ AppRunnerSetup
    \/ Site4Start
    \/ Site6Start
    \/ SetupSerial
    \/ RunUntilCompleteReturns
    \/ RunForever
    \/ RunForeverReturns
    \/ \E outcome \in Outcomes, first \in Firsts, port \in Ports :
          Callback(outcome, first, port)
    \/ \E port \in Ports : NoticeEvents(port)
    \/ ReaderSync
    \/ ReadFails
    \/ \E chunk \in ShutdownChunks : ReadFrame(chunk)
    \/ \E port \in Ports : ReaderWaits(port)
    \/ ReaderCancelled
    \/ \E sig \in {Signals[i] : i \in 1..Len(Signals)} : Signal(sig)

SpecShutdown ==
    /\ InitShutdown
    /\ [][NextShutdown]_vars
    /\ WF_vars(Runs)

-----------------------------------------------------------------------------
(* main() as shipped (line 211 active, line 215 a comment) under a wider   *)
(* choice of jsolar.ini: sensors of every type, also of one the decoder    *)
(* does not know, under the names of the fixed fields too, alone or two    *)
(* in one file.  Offsets, size, position and factor all differ, so that a  *)
(* decoder given the wrong one returns another value.                      *)
ShippedNames == {"temp1", "pump", "device", "timestamp"}

ShippedTypes == {"raw", "temperature", "bit", "time", "humidity"}

ShippedOffsets == {1, 2}

ShippedSensor(name, type, offset) ==
    [name |-> name,
     enabled |-> "true",
     type |-> type,
     offset |-> offset,
     size |-> 2,
     position |-> 3,
     factor |-> 5,
     description |-> "about " \o name,
     metrics |-> IF name = "pump" THEN "counter" ELSE "gauge"]

ShippedConfigs ==
    {<<ShippedSensor(n, t, o)>> :
        n \in ShippedNames, t \in ShippedTypes, o \in ShippedOffsets}
    \cup
    {<<ShippedSensor(n[1], "raw", 1), ShippedSensor(n[2], "temperature", 2)>> :
        n \in {m \in ShippedNames \X ShippedNames : m[1] # m[2]}}

InitShipped ==
    /\ InitProcess
    /\ deploy = "dummy"
    /\ raw \in ShippedConfigs
    /\ line = <<>>

NextShipped ==
    \/ ParseConfig
    \/ DummySerial
    \/ HandleSignals
    \/ AppRunnerSetup
    \/ Site4Start
    \/ Site6Start
    \/ RunUntilCompleteReturns
    \/ RunForever
    \/ \E outcome \in Outcomes, first \in Firsts, port \in Ports :
          Callback(outcome, first, port)
    \/ GetJson
    \/ GetMetrics

SpecShipped == InitShipped /\ [][NextShipped]_vars

(* The process with line 215 active, reading a serial line that delivers   *)
(* any bytes, up to MaxStream of them, and then ends, or one of two longer *)
(* lines that carry two frames the decoder accepts, with different bytes,  *)
(* after one byte of noise.  Either only the sensor named device is        *)
(* enabled, which reads payload byte 0, or temp1 is too, which reads       *)
(* payload byte 5.                                                         *)
StreamConfig == <<RawSensor("temp1", "false"), RawSensor("device", "true")>>

TwoFrameLines ==
    {<<0, Delimiter, 0, 0, 0, 0, VersionMarker, 0,
          Delimiter, VersionMarker, 0, 0, 0, VersionMarker, VersionMarker,
          Delimiter>>,
     <<0, Delimiter, VersionMarker, 0, 0, 0, VersionMarker, VersionMarker,
          Delimiter, 0, 0, 0, 0, VersionMarker, 0,
          Delimiter>>}

InitStream ==
    /\ InitProcess
    /\ deploy = "serial"
    /\ raw \in {StreamConfig, ShutdownConfig}
    /\ line \in SeqsUpTo(Bytes, MaxStream) \cup TwoFrameLines

NextStream ==
    \/ ParseConfig
    \/ HandleSignals
    \/ AppRunnerSetup
    \/ Site4Start
    \/ Site6Start
    \/ SetupSerial
    \/ RunUntilCompleteReturns
    \/ RunForever
    \/ \E outcome \in Outcomes, first \in Firsts, port \in Ports :
          Callback(outcome, first, port)
    \/ \E port \in Ports : NoticeEvents(port)
    \/ StreamSync
    \/ StreamFails
    \/ StreamFrame
    \/ \E port \in Ports : ReaderWaits(port)

SpecStream == InitStream /\ [][NextStream]_vars

-----------------------------------------------------------------------------
(* Vocabulary of the properties *)

FixedKeys == {"device", "timestamp"}

SensorKeys(reading) == DictKeys(reading) \ FixedKeys

(* The step is one iteration of the reader loop on a candidate frame. *)
FrameStep == frames' = frames + 1

(* The step is one HTTP request handled. *)
RequestStep == served' = served + 1

(* The reader is still in its loop, with no exception. *)
ReaderLoops(pc, exc) == pc = "read" /\ exc = "none"

(* A Reading with nothing missing: device, timestamp and one entry per     *)
(* active sensor, each with a value.                                       *)
Complete(reading, cfg) ==
    /\ DictKeys(reading) = FixedKeys \cup ActiveNames(cfg)
    /\ Len(reading) = Cardinality(DictKeys(reading))
    /\ \A i \in 1..Len(reading) : reading[i][2] # PyError

(* Every field or sample of the response r carries the value that the      *)
(* Reading has under that name, and no entry of the Reading is left out.   *)
RenderedFrom(r, reading) ==
    IF r.route = "/"
    THEN /\ Len(r.body) = Len(reading)
         /\ \A i \in 1..Len(reading) :
               /\ r.body[i][1] = reading[i][1]
               /\ r.body[i][2].num = reading[i][2].num
               /\ r.body[i][2].str = reading[i][2].str
    ELSE /\ \A i \in 1..Len(r.body) :
               /\ r.body[i][2] \in SensorKeys(reading)
               /\ r.body[i][1] = "sample" =>
                     r.body[i][3] = PyStrOf(DictGet(reading, r.body[i][2]))
         /\ \A k \in SensorKeys(reading) :
               \E i \in 1..Len(r.body) : r.body[i][1] = "sample" /\ r.body[i][2] = k

(* The sensors of jsolar.ini that are not enabled. *)
DisabledNames == {raw[i].name : i \in {j \in 1..Len(raw) : raw[j].enabled # "true"}}

(* The names that a response shows: JSON fields, or metric blocks. *)
NamesIn(r) ==
    IF r.route = "/" THEN {r.body[i][1] : i \in 1..Len(r.body)}
    ELSE {r.body[i][2] : i \in 1..Len(r.body)}

-----------------------------------------------------------------------------
(* C1: a candidate frame shorter than 6 bytes is dropped: the decoder is   *)
(* not called, parsed_datagram keeps its value, no exception is raised and *)
(* the reader goes on to the next frame.                                   *)
C1_ShortFrameDiscarded ==
    [][(FrameStep /\ last'.len < 6) =>
          /\ ~ last'.decoded
          /\ parsed_datagram' = parsed_datagram
          /\ ReaderLoops(readerpc', readerExc')]_vars

(* C2: a candidate frame of 6 bytes or more whose byte 5 is not 0x10 is    *)
(* dropped: the decoder is not called, parsed_datagram keeps its value and *)
(* the reader goes on to the next frame.                                   *)
C2_WrongVersionDiscarded ==
    [][(FrameStep /\ last'.len >= 6 /\ last'.ver # 16) =>
          /\ ~ last'.decoded
          /\ parsed_datagram' = parsed_datagram
          /\ ReaderLoops(readerpc', readerExc')]_vars

C2_Witness ==
    /\ writes >= 1
    /\ last.len >= 6
    /\ last.ver # 16
    /\ readerpc = "read"

(* C3: when the decoder fails on a frame that passed the check, the frame  *)
(* is dropped, parsed_datagram keeps its value and the reader goes on with *)
(* the following frames.                                                   *)
C3_DecodeFailureCaught ==
    [][(FrameStep /\ last'.decoded /\ writes' = writes) =>
          /\ parsed_datagram' = parsed_datagram
          /\ ReaderLoops(readerpc', readerExc')]_vars

(* C4: a failure of readuntil ends the reader loop and leaves setup_serial *)
(* as an exception: main never goes on to run_forever after it as if       *)
(* setup_serial had finished normally.                                     *)
C4_ReadFailurePropagates ==
    readerExc = "IncompleteReadError" =>
        /\ readerpc = "done"
        /\ mainpc # "run_forever"

(* C5: as long as no decode has succeeded, every GET / and every           *)
(* GET /metrics is answered 503.                                           *)
C5_NoReading503 ==
    [][(RequestStep /\ writer = "none") => resp'.status = 503]_vars

C5_Witness ==
    /\ served = 1
    /\ writer = "none"
    /\ resp.route = "/metrics"
    /\ resp.status = 503
    /\ frames >= 1

(* C6: the reader loop is the only writer of parsed_datagram: whatever it  *)
(* holds was assigned by data_received.                                    *)
C6_ReaderIsOnlyWriter ==
    writer \in {"none", "data_received"}

(* C7: the reader assigns parsed_datagram once for each frame of 6 bytes   *)
(* or more with version 0x10 that decodes, in the iteration that took the  *)
(* frame, and never otherwise.                                             *)
C7_OneWritePerGoodFrame ==
    /\ [](writes = good)
    /\ [][/\ writes' # writes => FrameStep
          /\ FrameStep =>
                /\ writes' - writes = good' - good
                /\ good' = good + 1 =>
                      last'.decoded /\ parsed_datagram' = latest']_vars

C7_Witness ==
    /\ frames = 2
    /\ writes = 1
    /\ good = 1
    /\ ~ last.decoded
    /\ parsed_datagram = latest

(* C8: a response is rendered from one Reading, the one parsed_datagram    *)
(* holds when the handler runs, and that Reading is complete.              *)
C8_NoTornReading ==
    /\ [](parsed_datagram # None => Complete(parsed_datagram, config))
    /\ [][(RequestStep /\ resp'.status = 200) =>
             /\ Complete(parsed_datagram, config)
             /\ RenderedFrom(resp', parsed_datagram)]_vars

C8_Witness ==
    /\ resp.status = 200
    /\ resp.route = "/metrics"
    /\ writes = 2
    /\ "temp1" \in DictKeys(parsed_datagram)
    /\ readerpc = "read"

(* C9: a request handled after an assignment of parsed_datagram is         *)
(* answered 200 from the Reading of the latest assignment.                 *)
C9_WriteVisible ==
    [][(RequestStep /\ writer # "none") =>
          /\ resp'.status = 200
          /\ RenderedFrom(resp', latest)]_vars

C9_Witness ==
    /\ writes = 2
    /\ resp.status = 200
    /\ resp.route = "/"
    /\ RenderedFrom(resp, latest)
    /\ DictGet(latest, "timestamp") = PyIsoTime(1)

(* C10 as stated: a sensor that is not enabled is not in the active schema *)
(* and its name is no key of parsed_datagram, no field of a GET / body and *)
(* no metric block of a GET /metrics body.                                 *)
C10_DisabledNameNeverAppears ==
    mainpc # "parse_config" =>
        /\ DisabledNames \cap ActiveNames(config) = {}
        /\ DisabledNames \cap DictKeys(parsed_datagram) = {}
        /\ DisabledNames \cap NamesIn(resp) = {}

(* C10: a sensor that is not enabled is not in the active schema, its name *)
(* is no metric block of a GET /metrics body, and unless it is named like  *)
(* one of the fixed fields device and timestamp, its name is no key of     *)
(* parsed_datagram and no field of a GET / body.                           *)
C10_DisabledSensorNeverAppears ==
    mainpc # "parse_config" =>
        /\ DisabledNames \cap ActiveNames(config) = {}
        /\ (DisabledNames \ FixedKeys) \cap DictKeys(parsed_datagram) = {}
        /\ resp.route = "/" => (DisabledNames \ FixedKeys) \cap NamesIn(resp) = {}
        /\ resp.route = "/metrics" => DisabledNames \cap NamesIn(resp) = {}

C10_Witness ==
    /\ raw[1].enabled = "absent"
    /\ raw[2].enabled = "true"
    /\ writes >= 1
    /\ resp.status = 200
    /\ resp.route = "/metrics"

-----------------------------------------------------------------------------
(* C11: every request is answered 503, the global being None, or 200 with  *)
(* a body rendered from the Reading the global holds; no request ends any  *)
(* other way, whatever became of the reader.                               *)
C11_Only200Or503 ==
    [][RequestStep =>
          \/ resp'.status = 503 /\ parsed_datagram = None
          \/ /\ resp'.status = 200
             /\ parsed_datagram # None
             /\ RenderedFrom(resp', parsed_datagram)]_vars

C11_Witness ==
    /\ readerExc = "DecodeError"
    /\ writes = 1
    /\ served = 1
    /\ resp.route = "/metrics"
    /\ resp.status = 200
    /\ Len(resp.body) = 3

(* C12: once the handler of a termination signal has started a shutdown    *)
(* task - one, or a second one while the first shutdown is under way -     *)
(* the event loop eventually stops for good: run_forever or the            *)
(* run_until_complete under way returns and main() ends.                   *)
C12_SignalStopsLoop == (Len(shutdowns) > 0) ~> (mainpc = "exited")

(* C13: from the moment the reader task is cancelled, the step that        *)
(* cancels it included, parsed_datagram is not changed, and it holds what  *)
(* it held before, None, or the complete Reading of the last frame         *)
(* decoded: never part of a Reading.                                       *)
C13_CancelLeavesStoreWhole ==
    [][(readerpc' = "cancelling" \/ readerExc' = "CancelledError") =>
          /\ parsed_datagram' = parsed_datagram
          /\ \/ parsed_datagram' = None
             \/ /\ Complete(parsed_datagram', config')
                /\ parsed_datagram' = latest']_vars

C13_Witness ==
    /\ readerExc = "CancelledError"
    /\ writes = 2
    /\ parsed_datagram # None
    /\ DictGet(parsed_datagram, "temp1") = PyInt(VersionMarker)

(* The entries of a Reading other than device and timestamp, in order. *)
SensorEntries(reading) ==
    SelectSeq(reading, LAMBDA e : e[1] \notin FixedKeys)

(* The subsection of jsolar.ini with that name. *)
Written(name) == raw[CHOOSE i \in 1..Len(raw) : raw[i].name = name]

(* C14: when the global holds a Reading, the body of GET /metrics is, for  *)
(* each entry of the Reading other than device and timestamp and in the    *)
(* Reading's order, the three lines HELP (the sensor's description), TYPE  *)
(* (its metric kind) and sample (str of the value), and nothing else.      *)
C14_MetricsBody ==
    [][(RequestStep /\ resp'.route = "/metrics" /\ parsed_datagram # None) =>
          LET entries == SensorEntries(parsed_datagram)
              body == resp'.body
          IN  /\ resp'.status = 200
              /\ Len(body) = 3 * Len(entries)
              /\ \A j \in 1..Len(entries) :
                    LET name == entries[j][1]
                    IN  /\ body[3 * j - 2] =
                              <<"# HELP", name, Written(name).description>>
                        /\ body[3 * j - 1] =
                              <<"# TYPE", name, Written(name).metrics>>
                        /\ body[3 * j] =
                              <<"sample", name, PyStrOf(entries[j][2])>>]_vars

C14_Witness ==
    /\ resp.route = "/metrics"
    /\ resp.status = 200
    /\ Len(resp.body) = 6
    /\ resp.body[1][2] = "pump"
    /\ resp.body[4][2] = "temp1"
    /\ resp.body[6][3] = "8508.0"

(* The decoder call that the type of the sensor asks for, on the buffer of *)
(* dummy_serial.                                                           *)
CallFor(sensor) ==
    CASE sensor.type = "raw" ->
            GetRawValue(DummyBuffer, sensor.offset, sensor.size)
      [] sensor.type = "temperature" ->
            GetTemperatureValue(DummyBuffer, sensor.offset, sensor.size,
                                sensor.factor)
      [] sensor.type = "bit" ->
            GetBitValue(DummyBuffer, sensor.offset, sensor.position)
      [] sensor.type = "time" ->
            GetTimeValue(DummyBuffer, sensor.offset, sensor.size)
      [] OTHER ->
            GetRawValue(DummyBuffer, sensor.offset, sensor.size)

(* C15: once dummy_serial has decoded its buffer, the Reading holds under  *)
(* the name of every active sensor the result of the one decoder call its  *)
(* type asks for: raw (offset, size), temperature (offset, size, factor),  *)
(* bit (offset, position), time (offset, size), any other type as raw; and *)
(* it holds no key besides these names and the two fixed ones.             *)
C15_DecoderByType ==
    mainpc \notin {"parse_config", "dummy_serial"} =>
        /\ parsed_datagram # None
        /\ \A i \in 1..Len(raw) :
              DictGet(parsed_datagram, raw[i].name) = CallFor(raw[i])
        /\ DictKeys(parsed_datagram) =
              FixedKeys \cup {raw[i].name : i \in 1..Len(raw)}

C15_Witness ==
    /\ mainpc = "run_forever"
    /\ Len(raw) = 1
    /\ raw[1].type = "bit"
    /\ raw[1].offset = 2
    /\ DictGet(parsed_datagram, raw[1].name) = PyBool(TRUE)

(* The positions of the delimiters in the line, and the n-th of them. *)
DelimiterAt == {i \in 1..Len(line) : line[i] = Delimiter}

NthDelimiter(n) ==
    CHOOSE i \in DelimiterAt : Cardinality({k \in DelimiterAt : k <= i}) = n

(* C16: the candidate frames built so far are, in order, 0xAA followed by  *)
(* exactly the bytes of the line strictly between its j-th and (j+1)-th    *)
(* delimiter; the reader has consumed the line up to and including the     *)
(* delimiter that ended the last of them (the first delimiter, before any  *)
(* frame), so that nothing after the first delimiter is dropped or read    *)
(* twice; a candidate frame holds 0xAA at index 0 only; and a reader that  *)
(* ended at the end of the stream has built a frame for every pair of      *)
(* consecutive delimiters.                                                 *)
C16_FramesBetweenDelimiters ==
    /\ Len(cands) > 0 => Cardinality(DelimiterAt) > Len(cands)
    /\ \A j \in 1..Len(cands) :
          /\ cands[j] = <<Delimiter>> \o
                SubSeq(line, NthDelimiter(j) + 1, NthDelimiter(j + 1) - 1)
          /\ \A i \in 2..Len(cands[j]) : cands[j][i] # Delimiter
    /\ readerpc \in {"off", "new", "sync"} => pos = 0 /\ cands = <<>>
    /\ readerpc = "read" => pos = NthDelimiter(Len(cands) + 1)
    /\ readerExc = "IncompleteReadError" =>
          Len(cands) = IF DelimiterAt = {} THEN 0
                       ELSE Cardinality(DelimiterAt) - 1

C16_Witness ==
    /\ Len(cands) = 2
    /\ Len(cands[1]) = 1
    /\ Len(cands[2]) = 4
    /\ pos = Len(line)
    /\ line[1] # Delimiter

(* C17: a write for the frame F leaves in parsed_datagram exactly the      *)
(* Reading decoded from F: the keys device, timestamp and the names of the *)
(* active sensors, each sensor's value read from F, a timestamp of this    *)
(* decode, the very dict the decoder returned; nothing of the Reading held *)
(* before.  An iteration that does not write leaves the stored Reading as  *)
(* it was.                                                                 *)
C17_WriteReplacesWholesale ==
    [][/\ (writes' = writes + 1) =>
            LET F == cands'[Len(cands')]
            IN  /\ DictKeys(parsed_datagram') = FixedKeys \cup ActiveNames(config)
                /\ Len(parsed_datagram') = Cardinality(DictKeys(parsed_datagram'))
                /\ \A n \in ActiveNames(config) :
                      DictGet(parsed_datagram', n) =
                          GetRawValue(F, Written(n).offset, Written(n).size)
                /\ "timestamp" \notin ActiveNames(config) =>
                      \E now \in Times :
                          DictGet(parsed_datagram', "timestamp") = PyIsoTime(now)
                /\ parsed_datagram' = latest'
       /\ (FrameStep /\ writes' = writes) =>
            parsed_datagram' = parsed_datagram]_vars

C17_Witness ==
    /\ writes = 2
    /\ Len(cands) = 2
    /\ cands[1][7] = VersionMarker
    /\ cands[2][7] = 0
    /\ DictGet(parsed_datagram, "temp1") = PyInt(0)

(* C18: whatever the active sensors are called, the device entry of the    *)
(* Reading is the configured device name and its timestamp entry is the    *)
(* time of the decode, and a GET /metrics body served from a Reading has a *)
(* block for every active sensor.                                          *)
C18_FixedFieldsKept ==
    /\ parsed_datagram # None =>
          /\ DictGet(parsed_datagram, "device") = PyStr(DeviceName)
          /\ \E now \in Times :
                DictGet(parsed_datagram, "timestamp") = PyIsoTime(now)
    /\ (resp.route = "/metrics" /\ resp.status = 200) =>
          ActiveNames(config) \subseteq NamesIn(resp)

(* C19: the task a signal's handler creates runs shutdown with the signal  *)
(* that was delivered: when the loop calls the handler queued for a signal *)
(* and a task is created, that task carries the signal of the handler.     *)
C19_ShutdownGetsDeliveredSignal ==
    [][(/\ loop = "running"
        /\ Batch # <<>>
        /\ Head(Batch).cb = "lambda"
        /\ Len(shutdowns') = Len(shutdowns) + 1) =>
          shutdowns'[Len(shutdowns')].sig = Head(Batch).got]_vars

=============================================================================
